---- MODULE Spec2Model ----
(***************************************************************************)
(* Model of the database backup controller of gobackup                     *)
(* (package database: Run, runModel, newBase, runHook, openTunneling,      *)
(* closeTunneling).                                                        *)
(*                                                                         *)
(* Strings that the code inspects character by character (hook scripts)    *)
(* are sequences of one-character strings; all other strings are TLA+      *)
(* strings.  Error values are the strings "nil" (no error) or a message.   *)
(***************************************************************************)
EXTENDS Integers, Sequences, FiniteSets, TLC

\* ------------------------------------------------------------------------
\* Bounds of the model
\* ------------------------------------------------------------------------
MaxTargets == 2
MaxScriptLen == 3

\* ------------------------------------------------------------------------
\* Values
\* ------------------------------------------------------------------------
Nil == "nil"
ErrQuote == "EOF found when expecting closing quote"
ErrInit == "init failed"
ErrPerform == "perform failed"
ErrStart == "tunnel failed"
NotCalled == "not called"

BeforeAction == "dump before_script"
AfterAction == "dump after_script"

\* the runes hook scripts are made of: the ignore-error prefix, the
\* non-escaping quote, white space and an ordinary word rune
Runes == {"-", "'", " ", "x"}

RECURSIVE SeqsUpTo(_, _)
SeqsUpTo(S, n) ==
  IF n = 0 THEN {<<>>}
  ELSE LET shorter == SeqsUpTo(S, n - 1)
       IN  shorter \cup {Append(s, r) : s \in {t \in shorter : Len(t) = n - 1}, r \in S}

AllScripts == SeqsUpTo(Runes, MaxScriptLen)

\* the scripts configured as before_script / after_script in the controller
\* runs: empty, plain, ignore-error, unterminated quote (tokenization
\* error) and the bare prefix
HookScripts ==
  { <<>>, <<"x">>, <<"-", "x">>, <<"'">>, <<"-">> }

TypeTags == {"mysql", "clickhouse"}
SshHosts == {"", "10.0.0.1"}
OnExits == {"", "always", "success", "failure", "never"}

\* a target's declaration as far as Run hands it over: its type tag and the
\* ssh_host of its own section; the hook keys are read later, by runModel
TargetConfigs ==
  [type : TypeTags, sshHost : SshHosts, before : {<<>>}, after : {<<>>},
   onExit : {""}]

\* ------------------------------------------------------------------------
\* runHook and what it calls
\* ------------------------------------------------------------------------
\* a plausible slip: the suffix is tested instead of the prefix
HasSuffix(script) == Len(script) > 0 /\ script[Len(script)] = "-"

\* strings.HasPrefix(script, "-")
HasPrefix(script) == Len(script) > 0 /\ script[1] = "-"

\* strings.TrimPrefix(script, "-")
TrimPrefix(script) ==
  IF Len(script) > 0 /\ script[1] = "-" THEN Tail(script) ELSE script

\* shlex.Split: the tokenizer's start / in-word / quoting states over Runes
RECURSIVE Scan(_, _, _, _, _)
Scan(s, i, state, value, toks) ==
  IF i > Len(s)
  THEN CASE state = "start"   -> [tokens |-> toks, err |-> Nil]
         [] state = "inWord"  -> [tokens |-> Append(toks, value), err |-> Nil]
         [] state = "quoting" -> [tokens |-> toks, err |-> ErrQuote]
  ELSE LET r == s[i]
       IN  CASE state = "start" ->
                  IF r = " " THEN Scan(s, i + 1, "start", <<>>, toks)
                  ELSE IF r = "'" THEN Scan(s, i + 1, "quoting", <<>>, toks)
                  ELSE Scan(s, i + 1, "inWord", <<r>>, toks)
             [] state = "inWord" ->
                  IF r = " " THEN Scan(s, i + 1, "start", <<>>, Append(toks, value))
                  ELSE IF r = "'" THEN Scan(s, i + 1, "quoting", value, toks)
                  ELSE Scan(s, i + 1, "inWord", Append(value, r), toks)
             [] state = "quoting" ->
                  IF r = "'" THEN Scan(s, i + 1, "inWord", value, toks)
                  ELSE Scan(s, i + 1, "quoting", Append(value, r), toks)

Split(s) == Scan(s, 1, "start", <<>>, <<>>)

\* helper.Exec: the command runs to completion; envOk is whether it exits 0
Exec(c, envOk) == IF envOk THEN Nil ELSE "exit status 1"

\* a plausible slip: the failure of the command is logged, not returned
ErrRunSwallowed(action) == Nil

\* fmt.Errorf("Run %s failed: %v", action, err)
ErrRunFailed(action) ==
  IF action = BeforeAction THEN "Run dump before_script failed: exit status 1"
  ELSE "Run dump after_script failed: exit status 1"

\* the outcome of one call of runHook:
\*   err      the returned error (Nil when none, or when it panicked)
\*   executed the command was handed to helper.Exec
\*   exit0    the executed command succeeded
\*   tokErr   shlex.Split returned an error
\*   panicked c[0] was evaluated on an empty token list
HookOutcome(e, x, z, t, p) ==
  [err |-> e, executed |-> x, exit0 |-> z, tokErr |-> t, panicked |-> p]

runHook(action, script, envOk) ==
  IF Len(script) = 0 THEN HookOutcome(Nil, FALSE, FALSE, FALSE, FALSE)
  ELSE LET ignoreError == HasPrefix(script)
           sp == Split(TrimPrefix(script))
       IN  IF sp.err # Nil
           THEN IF ignoreError
                THEN HookOutcome(Nil, FALSE, FALSE, TRUE, FALSE)
                ELSE HookOutcome(sp.err, FALSE, FALSE, TRUE, FALSE)
           ELSE IF Len(sp.tokens) = 0
           THEN HookOutcome(Nil, FALSE, FALSE, FALSE, TRUE)
           ELSE IF Exec(sp.tokens, envOk) # Nil
                THEN IF ignoreError
                     THEN HookOutcome(Nil, TRUE, FALSE, FALSE, FALSE)
                     ELSE HookOutcome(ErrRunFailed(action), TRUE, FALSE, FALSE, FALSE)
                ELSE HookOutcome(Nil, TRUE, TRUE, FALSE, FALSE)

NoOutcome == HookOutcome(NotCalled, FALSE, FALSE, FALSE, FALSE)

\* ------------------------------------------------------------------------
\* State
\* ------------------------------------------------------------------------
VARIABLES
  globalSshHost,  \* value of the process-wide viper key "ssh_host"
  nTargets,       \* len(model.Databases)
  idx,            \* position in model.Databases of the target being run
  pc,             \* position of the controller in Run / runModel
  cfg,            \* dbConfig of the target being run
  base,           \* the Base built by newBase for the target being run
  err,            \* runModel's named result err
  results,        \* what runModel returned to Run, target by target
  runResult,      \* what Run returned (NotCalled until it returns)
  tun,            \* per target: the tunnel, its two channels, its two tasks
  log,            \* per run of runModel: what has been called so far
  hk              \* a call of runHook on its own: action, script, outcome

vars == <<globalSshHost, nTargets, idx, pc, cfg, base, err, results,
          runResult, tun, log, hk>>

Targets == 1..MaxTargets

NoTunnel ==
  [opened |-> FALSE, state |-> "Idle", reachedStarted |-> FALSE,
   cStart |-> 0, cEnd |-> 0, connPc |-> "none", watchPc |-> "none",
   cancelled |-> FALSE, stopCalls |-> 0, startErr |-> Nil]

NoConfig ==
  [type |-> "", sshHost |-> "", before |-> <<>>, after |-> <<>>, onExit |-> ""]

NoBase == [sshHost |-> "", dumpDir |-> FALSE]

NoLog ==
  [before |-> NoOutcome, initCalls |-> 0, init |-> NotCalled,
   opened |-> FALSE, ready |-> FALSE, performCalls |-> 0,
   perform |-> NotCalled, stops |-> 0, after |-> NoOutcome]

NoHook ==
  [action |-> "", script |-> <<>>, envOk |-> FALSE, res |-> NoOutcome,
   called |-> FALSE]

Init ==
  /\ globalSshHost \in SshHosts
  /\ nTargets \in 0..MaxTargets
  /\ idx = 0
  /\ pc = "Run"
  /\ cfg = NoConfig
  /\ base = NoBase
  /\ err = Nil
  /\ results = <<>>
  /\ runResult = NotCalled
  /\ tun = [i \in Targets |-> NoTunnel]
  /\ log = NoLog
  /\ hk = NoHook


\* ------------------------------------------------------------------------
\* Run
\* ------------------------------------------------------------------------
\* Run's entry: an empty list of databases returns nil at once
RunEntry ==
  /\ pc = "Run"
  /\ IF nTargets = 0
     THEN /\ pc' = "done"
          /\ runResult' = Nil
     ELSE /\ pc' = "loop"
          /\ UNCHANGED runResult
  /\ UNCHANGED <<globalSshHost, nTargets, idx, cfg, base, err, results, tun,
                 log, hk>>

\* the head of the range loop: the next dbCfg is handed to runModel, or the
\* loop is over and Run returns nil
RunNext ==
  /\ pc = "loop"
  /\ IF idx < nTargets
     THEN /\ \E c \in TargetConfigs : cfg' = c
          /\ idx' = idx + 1
          /\ pc' = "newBase"
          /\ base' = NoBase
          /\ err' = Nil
          /\ log' = NoLog
          /\ UNCHANGED runResult
     ELSE /\ pc' = "done"
          /\ runResult' = Nil
          /\ UNCHANGED <<idx, cfg, base, err, log>>
  /\ UNCHANGED <<globalSshHost, nTargets, results, tun, hk>>

\* a plausible slip: Run goes on to the next target whatever was returned
RunNeverStops(e) == FALSE

\* what Run does with the error runModel returned
RunStops(e) == e # Nil

RunCheck ==
  /\ pc = "ret"
  /\ results' = Append(results, err)
  /\ IF RunStops(err)
     THEN /\ pc' = "done"
          /\ runResult' = err
          /\ UNCHANGED <<cfg, base, err, log>>
     ELSE /\ pc' = "loop"
          /\ cfg' = NoConfig
          /\ base' = NoBase
          /\ err' = Nil
          /\ log' = NoLog
          /\ UNCHANGED runResult
  /\ UNCHANGED <<globalSshHost, nTargets, idx, tun, hk>>

\* ------------------------------------------------------------------------
\* runModel
\* ------------------------------------------------------------------------
\* newBase: the SSH host is read from the process-wide viper, the dump
\* directory is created (mkOk) or its creation fails and is only logged
NewBase ==
  /\ pc = "newBase"
  /\ \E mkOk \in BOOLEAN :
       base' = [sshHost |-> globalSshHost, dumpDir |-> mkOk]
  /\ pc' = "switch"
  /\ UNCHANGED <<globalSshHost, nTargets, idx, cfg, err, results, runResult,
                 tun, log, hk>>

\* a plausible slip: the switch has no default case that returns
RecognisedAny(type) == TRUE

\* a plausible slip: a case for a type that has no performer
RecognisedMore(type) ==
  type \in {"mysql", "redis", "postgresql", "mongodb", "sqlite", "mssql",
            "influxdb2", "clickhouse"}

Recognised(type) ==
  type \in {"mysql", "redis", "postgresql", "mongodb", "sqlite", "mssql",
            "influxdb2"}

\* the switch on dbConfig.Type; the default case warns and returns nil
Switch ==
  /\ pc = "switch"
  /\ IF Recognised(cfg.type)
     THEN pc' = "before"
     ELSE pc' = "ret"
  /\ UNCHANGED <<globalSshHost, nTargets, idx, cfg, base, err, results,
                 runResult, tun, log, hk>>

\* a plausible slip: the error of the before_script hook is dropped
AfterBeforeIgnoring(r) == IF r.panicked THEN "crashed" ELSE "readAfter"

\* where runModel goes after a call of runHook for before_script
AfterBefore(r) ==
  IF r.panicked THEN "crashed" ELSE IF r.err # Nil THEN "ret" ELSE "readAfter"

\* before_script is read from the target's section and handed to runHook
BeforeScript ==
  /\ pc = "before"
  /\ \E script \in HookScripts, envOk \in BOOLEAN :
       LET r == runHook(BeforeAction, script, envOk)
       IN  /\ cfg' = [cfg EXCEPT !.before = script]
           /\ log' = [log EXCEPT !.before = r]
           /\ pc' = AfterBefore(r)
           /\ err' = IF r.err # Nil /\ ~r.panicked THEN r.err ELSE err
  /\ UNCHANGED <<globalSshHost, nTargets, idx, base, results, runResult,
                 tun, hk>>

\* after_script and on_exit are read from the target's section
ReadAfter ==
  /\ pc = "readAfter"
  /\ \E script \in HookScripts, onExit \in OnExits :
       cfg' = [cfg EXCEPT !.after = script, !.onExit = onExit]
  /\ pc' = "init"
  /\ UNCHANGED <<globalSshHost, nTargets, idx, base, err, results, runResult,
                 tun, log, hk>>

WantsTunnel(b) == b.sshHost # ""

\* a plausible slip: the error of init() is not looked at
AfterInitIgnoring(b, e) == IF b.sshHost # "" THEN "open" ELSE "perform"

\* where runModel goes once db.init() returned e
AfterInit(b, e) ==
  IF e # Nil THEN "ret" ELSE IF WantsTunnel(b) THEN "open" ELSE "perform"

\* db.init(), whose result e is the performer's
InitDb ==
  /\ pc = "init"
  /\ \E e \in {Nil, ErrInit} :
       /\ err' = e
       /\ log' = [log EXCEPT !.initCalls = @ + 1, !.init = e]
       /\ pc' = AfterInit(base, e)
  /\ UNCHANGED <<globalSshHost, nTargets, idx, cfg, base, results, runResult,
                 tun, hk>>

\* openTunneling up to its two go statements: two fresh one-slot channels,
\* the tunnel, its local err (nil), the two tasks
OpenTunneling ==
  /\ pc = "open"
  /\ tun' = [tun EXCEPT ![idx] =
               [NoTunnel EXCEPT !.opened = TRUE, !.connPc = "Start",
                                !.watchPc = "wait"]]
  /\ log' = [log EXCEPT !.opened = TRUE]
  /\ pc' = "openRet"
  /\ UNCHANGED <<globalSshHost, nTargets, idx, cfg, base, err, results,
                 runResult, hk>>

\* openTunneling's return err: the local err is read while the connect task
\* may assign it; runModel drops the value, whichever it is
OpenReturn ==
  /\ pc = "openRet"
  /\ pc' = "waitReady"
  /\ UNCHANGED <<globalSshHost, nTargets, idx, cfg, base, err, results,
                 runResult, tun, log, hk>>

\* <-base.cTunnelStart
WaitReady ==
  /\ pc = "waitReady"
  /\ tun[idx].cStart > 0
  /\ tun' = [tun EXCEPT ![idx].cStart = @ - 1]
  /\ log' = [log EXCEPT !.ready = TRUE]
  /\ pc' = "perform"
  /\ UNCHANGED <<globalSshHost, nTargets, idx, cfg, base, err, results,
                 runResult, hk>>

\* a plausible slip: the tunnel is closed only when perform succeeded
AfterPerformOkOnly(b, e) ==
  IF b.sshHost # "" /\ e = Nil THEN "close" ELSE "policy"

\* where runModel goes once db.perform() returned e
AfterPerform(b, e) == IF WantsTunnel(b) THEN "close" ELSE "policy"

\* db.perform(), whose result e is the performer's
Perform ==
  /\ pc = "perform"
  /\ \E e \in {Nil, ErrPerform} :
       /\ err' = e
       /\ log' = [log EXCEPT !.performCalls = @ + 1, !.perform = e]
       /\ pc' = AfterPerform(base, e)
  /\ UNCHANGED <<globalSshHost, nTargets, idx, cfg, base, results, runResult,
                 tun, hk>>

\* a plausible slip: closeTunneling publishes nothing
CloseTunnelingSilent ==
  /\ pc = "close"
  /\ pc' = "policy"
  /\ UNCHANGED <<globalSshHost, nTargets, idx, cfg, base, err, results,
                 runResult, tun, log, hk>>

\* closeTunneling: db.cTunnelEnd <- struct{}{}
CloseTunneling ==
  /\ pc = "close"
  /\ tun[idx].cEnd < 1
  /\ tun' = [tun EXCEPT ![idx].cEnd = @ + 1]
  /\ log' = [log EXCEPT !.stops = @ + 1]
  /\ pc' = "policy"
  /\ UNCHANGED <<globalSshHost, nTargets, idx, cfg, base, err, results,
                 runResult, hk>>

\* a plausible slip: after a failed perform an unset on_exit runs the hook
RunsAfterUnset(e, afterScript, onExit) ==
  IF e # Nil
  THEN Len(afterScript) # 0 /\ onExit \in {"", "always", "failure"}
  ELSE TRUE

\* a plausible slip: on_exit is honoured after a successful perform too
RunsAfterStrict(e, afterScript, onExit) ==
  IF e # Nil
  THEN Len(afterScript) # 0 /\ onExit \in {"always", "failure"}
  ELSE onExit \in {"", "always", "success"}

\* the branches between perform's return and the after_script hook:
\* whether runModel goes on to run the hook
RunsAfter(e, afterScript, onExit) ==
  IF e # Nil
  THEN IF Len(afterScript) = 0 THEN FALSE
       ELSE IF Len(onExit) # 0
            THEN CASE onExit = "always"  -> TRUE
                   [] onExit = "success" -> FALSE
                   [] onExit = "failure" -> TRUE
                   [] OTHER              -> FALSE
            ELSE FALSE
  ELSE TRUE

\* what runModel returns after the after_script hook returned r, when its
\* named result holds e
AfterResult(r, e) == IF r.err # Nil THEN r.err ELSE e

\* the after_script policy and, when it says so, the hook
AfterScript ==
  /\ pc = "policy"
  /\ IF RunsAfter(err, cfg.after, cfg.onExit)
     THEN \E envOk \in BOOLEAN :
            LET r == runHook(AfterAction, cfg.after, envOk)
            IN  /\ log' = [log EXCEPT !.after = r]
                /\ pc' = IF r.panicked THEN "crashed" ELSE "ret"
                /\ err' = IF r.panicked THEN err ELSE AfterResult(r, err)
     ELSE /\ pc' = "ret"
          /\ UNCHANGED <<err, log>>
  /\ UNCHANGED <<globalSshHost, nTargets, idx, cfg, base, results, runResult,
                 tun, hk>>

\* ------------------------------------------------------------------------
\* The tunnel and the two tasks openTunneling starts for target i
\* ------------------------------------------------------------------------
\* The tasks are goroutines of their own: a panic in the controller
\* (pc = "crashed") unwinds runModel and Run and leaves them running.
TunUnchanged ==
  UNCHANGED <<globalSshHost, nTargets, idx, pc, cfg, base, err, results,
              runResult, log, hk>>


\* connect task: sshTun.Start begins, the callback sees StateStarting
ConnStarting(i) ==
  /\ tun[i].connPc = "Start"
  /\ tun' = [tun EXCEPT ![i].state = "Starting", ![i].connPc = "starting"]
  /\ TunUnchanged

\* a plausible alternative: the failed start releases the ready wait
ConnStartFailSignals(i) ==
  /\ tun[i].connPc = "starting"
  /\ tun' = [tun EXCEPT ![i].state = "Stopped", ![i].cStart = 1,
                        ![i].connPc = "done"]
  /\ TunUnchanged

\* connect task: the start attempt fails; the callback sees StateStopped
\* and Start returns an error
ConnStartFail(i) ==
  /\ tun[i].connPc = "starting"
  /\ tun' = [tun EXCEPT ![i].state = "Stopped", ![i].connPc = "lenCheck",
                        ![i].startErr = ErrStart]
  /\ TunUnchanged

\* connect task: the tunnel is up; the callback sees StateStarted and sends
\* on cTunnelStart
ConnStarted(i) ==
  /\ tun[i].connPc = "starting"
  /\ tun[i].cStart < 1
  /\ tun' = [tun EXCEPT ![i].state = "Started", ![i].reachedStarted = TRUE,
                        ![i].cStart = @ + 1, ![i].connPc = "forwarding"]
  /\ TunUnchanged

\* connect task: forwarding ends with an error; Start returns it
ConnForwardFail(i) ==
  /\ tun[i].connPc = "forwarding"
  /\ ~tun[i].cancelled
  /\ tun' = [tun EXCEPT ![i].state = "Stopped", ![i].connPc = "lenCheck",
                        ![i].startErr = ErrStart]
  /\ TunUnchanged

\* connect task: forwarding ends because Stop was called; Start returns nil
ConnForwardStopped(i) ==
  /\ tun[i].connPc = "forwarding"
  /\ tun[i].cancelled
  /\ tun' = [tun EXCEPT ![i].state = "Stopped", ![i].connPc = "done"]
  /\ TunUnchanged

\* connect task, after an error: if len(db.cTunnelStart) > 0
ConnLenCheck(i) ==
  /\ tun[i].connPc = "lenCheck"
  /\ tun' = [tun EXCEPT ![i].connPc =
               IF tun[i].cStart > 0 THEN "drain" ELSE "done"]
  /\ TunUnchanged

\* connect task, after an error: <-db.cTunnelStart
ConnDrain(i) ==
  /\ tun[i].connPc = "drain"
  /\ tun[i].cStart > 0
  /\ tun' = [tun EXCEPT ![i].cStart = @ - 1, ![i].connPc = "done"]
  /\ TunUnchanged

\* stop-watcher task: <-db.cTunnelEnd
WatchRecv(i) ==
  /\ tun[i].watchPc = "wait"
  /\ tun[i].cEnd > 0
  /\ tun' = [tun EXCEPT ![i].cEnd = @ - 1, ![i].watchPc = "stop"]
  /\ TunUnchanged

\* a plausible slip: the stop-watcher logs the stop and returns without
\* calling Stop on the tunnel
WatchStopIdle(i) ==
  /\ tun[i].watchPc = "stop"
  /\ tun' = [tun EXCEPT ![i].stopCalls = @ + 1, ![i].watchPc = "done"]
  /\ TunUnchanged

\* stop-watcher task, after the receive: sshTun.Stop(), which cancels a
\* tunnel that is running
WatchStop(i) ==
  /\ tun[i].watchPc = "stop"
  /\ tun' = [tun EXCEPT ![i].stopCalls = @ + 1,
                        ![i].watchPc = "done",
                        ![i].cancelled = (tun[i].connPc = "forwarding")]
  /\ TunUnchanged

\* ------------------------------------------------------------------------
\* The controller with its tunnels
\* ------------------------------------------------------------------------
Next ==
  \/ RunEntry
  \/ RunNext
  \/ RunCheck
  \/ NewBase
  \/ Switch
  \/ BeforeScript
  \/ ReadAfter
  \/ InitDb
  \/ OpenTunneling
  \/ OpenReturn
  \/ WaitReady
  \/ Perform
  \/ CloseTunneling
  \/ AfterScript
  \/ \E i \in Targets : ConnStarting(i)
  \/ \E i \in Targets : ConnStartFail(i)
  \/ \E i \in Targets : ConnStarted(i)
  \/ \E i \in Targets : ConnForwardFail(i)
  \/ \E i \in Targets : ConnForwardStopped(i)
  \/ \E i \in Targets : ConnLenCheck(i)
  \/ \E i \in Targets : ConnDrain(i)
  \/ \E i \in Targets : WatchRecv(i)
  \/ \E i \in Targets : WatchStop(i)

Spec == Init /\ [][Next]_vars

\* ------------------------------------------------------------------------
\* Fair scheduling: a task that can take its next step eventually takes it.
\* The controller's calls (hooks, init, perform) return; Start either fails
\* or brings the tunnel up; a cancelled tunnel stops.  That a running tunnel
\* fails (ConnForwardFail) is up to the network, and never forced.
\* ------------------------------------------------------------------------
CtrlStep ==
  \/ RunEntry
  \/ RunNext
  \/ RunCheck
  \/ NewBase
  \/ Switch
  \/ BeforeScript
  \/ ReadAfter
  \/ InitDb
  \/ OpenTunneling
  \/ OpenReturn
  \/ WaitReady
  \/ Perform
  \/ CloseTunneling
  \/ AfterScript

Fairness ==
  /\ WF_vars(CtrlStep)
  /\ \A i \in Targets :
       /\ WF_vars(ConnStarting(i))
       /\ WF_vars(ConnStartFail(i) \/ ConnStarted(i))
       /\ WF_vars(ConnForwardStopped(i))
       /\ WF_vars(ConnLenCheck(i))
       /\ WF_vars(ConnDrain(i))
       /\ WF_vars(WatchRecv(i))
       /\ WF_vars(WatchStop(i))

FairSpec == Init /\ [][Next]_vars /\ Fairness

\* ------------------------------------------------------------------------
\* runHook on its own, over every script of AllScripts
\* ------------------------------------------------------------------------
InitHook ==
  /\ globalSshHost = ""
  /\ nTargets = 0
  /\ idx = 0
  /\ pc = "runHook"
  /\ cfg = NoConfig
  /\ base = NoBase
  /\ err = Nil
  /\ results = <<>>
  /\ runResult = NotCalled
  /\ tun = [i \in Targets |-> NoTunnel]
  /\ log = NoLog
  /\ hk \in [action : {BeforeAction, AfterAction}, script : AllScripts,
             envOk : {FALSE}, res : {NoOutcome}, called : {FALSE}]

HookCall ==
  /\ pc = "runHook"
  /\ ~hk.called
  /\ \E envOk \in BOOLEAN :
       hk' = [hk EXCEPT !.res = runHook(hk.action, hk.script, envOk),
                        !.envOk = envOk, !.called = TRUE]
  /\ UNCHANGED <<globalSshHost, nTargets, idx, pc, cfg, base, err, results,
                 runResult, tun, log>>

NextHook == HookCall

SpecHook == InitHook /\ [][NextHook]_vars

\* ------------------------------------------------------------------------
\* Properties of the controller (checked under Spec)
\* ------------------------------------------------------------------------
\* runModel has been called for target idx
Dispatched == idx >= 1
PerformReturned == log.perform # NotCalled
AfterCalled == log.after.err # NotCalled
BeforeCalled == log.before.err # NotCalled

\* C1: for a target whose own section declares a non-empty ssh_host,
\* perform() is never invoked before the tunnel has reached Started and the
\* controller has received its ready signal.
C1_PerformOnlyAfterReady ==
  (Dispatched /\ cfg.sshHost # "" /\ log.performCalls > 0)
    => (log.ready /\ tun[idx].reachedStarted)

\* What the code does guarantee: whenever runModel opened a tunnel (the
\* process-wide ssh_host is set), perform() is invoked only after the ready
\* signal was received from a tunnel that reached Started.
ReadyBeforePerformWhenOpened ==
  (Dispatched /\ base.sshHost # "" /\ log.performCalls > 0)
    => (log.opened /\ log.ready /\ tun[idx].reachedStarted)

\* C2: when a tunnel was opened and perform() returned, the stop signal is
\* published exactly once, after perform() returned and before the
\* after_script policy is evaluated, whatever perform() returned; without a
\* tunnel it is published zero times.
C2_StopPublishedOnce ==
  Dispatched =>
    /\ log.stops <= 1
    /\ ~log.opened => log.stops = 0
    /\ log.stops = 1 => (log.opened /\ PerformReturned)
    /\ (log.opened /\ PerformReturned /\ pc # "close") => log.stops = 1
    /\ (log.opened /\ (pc = "policy" \/ AfterCalled)) => log.stops = 1
    /\ (log.opened /\ pc = "close") => (log.stops = 0 /\ ~AfterCalled)

C2_Witness ==
  /\ pc = "ret"
  /\ log.opened
  /\ log.perform = ErrPerform
  /\ log.stops = 1
  /\ ~AfterCalled

\* C3: when perform() failed, the after_script hook is run exactly when
\* after_script is non-empty and on_exit is "always" or "failure"; runModel
\* returns the hook's error when the hook ran and returned one, and
\* perform()'s error otherwise.
C3_AfterPolicyOnFailure ==
  (Dispatched /\ log.perform = ErrPerform /\ pc \in {"ret", "done", "crashed"})
    => /\ AfterCalled <=>
            (Len(cfg.after) # 0 /\ cfg.onExit \in {"always", "failure"})
       /\ pc # "crashed" =>
            err = IF AfterCalled /\ log.after.err # Nil
                  THEN log.after.err ELSE ErrPerform

C3_Witness ==
  /\ pc = "ret"
  /\ log.perform = ErrPerform
  /\ cfg.onExit = "failure"
  /\ log.after.executed
  /\ err = ErrRunFailed(AfterAction)

\* C4: when perform() succeeded, the after_script hook is run whatever
\* on_exit is, and runModel returns the hook's error if it returned one and
\* nil otherwise; with an after_script that starts with "-" it returns nil.
C4_AfterHookOnSuccess ==
  (Dispatched /\ log.perform = Nil /\ pc \in {"ret", "done", "crashed"})
    => /\ AfterCalled
       /\ pc # "crashed" =>
            /\ err = log.after.err
            /\ (Len(cfg.after) # 0 /\ cfg.after[1] = "-") => err = Nil

C4_Witness ==
  /\ pc = "ret"
  /\ log.perform = Nil
  /\ cfg.onExit = "failure"
  /\ cfg.after = <<"-", "x">>
  /\ log.after.executed
  /\ ~log.after.exit0
  /\ err = Nil

\* C5: Run hands the targets to runModel one at a time, in order; the first
\* non-nil error is returned at once, every target before it has returned
\* nil, no target after it is dispatched (no hook, init, tunnel or perform
\* for it); Run returns nil only if every target returned nil.
FirstError ==
  IF \E j \in 1..Len(results) : results[j] # Nil
  THEN CHOOSE j \in 1..Len(results) :
         results[j] # Nil /\ \A k \in 1..(j - 1) : results[k] = Nil
  ELSE 0

C5_RunFailFast ==
  /\ idx \in {Len(results), Len(results) + 1}
  /\ idx <= nTargets
  /\ idx = Len(results) + 1 <=> pc \notin {"Run", "loop", "done"}
  /\ \A k \in Targets : k > idx => tun[k] = NoTunnel
  /\ FirstError # 0 =>
       /\ FirstError = Len(results)
       /\ idx = FirstError
       /\ pc = "done"
       /\ runResult = results[FirstError]
  /\ pc = "done" =>
       /\ runResult # NotCalled
       /\ runResult = Nil =>
            /\ Len(results) = nTargets
            /\ \A j \in 1..nTargets : results[j] = Nil
  /\ pc # "done" => runResult = NotCalled

C5_Witness ==
  /\ pc = "done"
  /\ runResult = ErrPerform
  /\ Len(results) = 1
  /\ nTargets > 1

\* C6: for a target whose type tag is not recognised, runModel returns nil
\* without running a hook, calling init() or perform() or opening a tunnel,
\* even with an SSH host configured, and Run goes on to the next target.
UnknownType == Dispatched /\ cfg # NoConfig /\ ~(cfg.type \in
  {"mysql", "redis", "postgresql", "mongodb", "sqlite", "mssql", "influxdb2"})

C6_UnknownTypeSkipped ==
  /\ [](UnknownType =>
          /\ pc \in {"newBase", "switch", "ret"}
          /\ log = NoLog
          /\ tun[idx] = NoTunnel
          /\ err = Nil)
  /\ [][(UnknownType /\ pc = "ret" /\ pc' # "ret") =>
          (pc' = "loop" /\ results' = Append(results, Nil))]_vars

C6_Witness ==
  /\ UnknownType
  /\ pc = "ret"
  /\ cfg.sshHost # ""
  /\ base.sshHost # ""
  /\ idx < nTargets

\* C7: if the start attempt fails before the tunnel reaches Started, no ready
\* signal is published and nothing is delivered to the controller: it stays
\* in the ready wait for good, perform() is not called, the stop signal is
\* not published, runModel does not return and Run reaches no later target.
StartFailed(i) ==
  tun[i].opened /\ tun[i].state = "Stopped" /\ ~tun[i].reachedStarted

C7_FailedStartBlocksForever ==
  /\ [](\A i \in Targets : StartFailed(i) =>
          /\ i = idx
          /\ pc \in {"openRet", "waitReady"}
          /\ tun[i].cStart = 0
          /\ ~ENABLED WaitReady
          /\ tun[i].cEnd = 0
          /\ tun[i].stopCalls = 0
          /\ log.performCalls = 0
          /\ log.stops = 0
          /\ err = Nil
          /\ Len(results) = idx - 1
          /\ runResult = NotCalled)
  /\ [][\A i \in Targets : StartFailed(i) => StartFailed(i)']_vars

C7_Witness ==
  /\ Dispatched
  /\ StartFailed(idx)
  /\ tun[idx].connPc = "done"
  /\ idx < nTargets

\* C8: if before_script is non-empty, has no "-" prefix and fails
\* (tokenization error or non-zero exit), runModel returns that error at
\* once: no init(), no perform(), no tunnel, no stop signal, no after_script.
BeforeFailed ==
  /\ BeforeCalled
  /\ Len(cfg.before) # 0
  /\ cfg.before[1] # "-"
  /\ log.before.tokErr \/ (log.before.executed /\ ~log.before.exit0)

C8_BeforeFailureAborts ==
  (Dispatched /\ BeforeFailed)
    => /\ pc \in {"ret", "done"}
       /\ err = log.before.err
       /\ err # Nil
       /\ pc = "done" => runResult = err
       /\ log.initCalls = 0
       /\ log.performCalls = 0
       /\ ~log.opened
       /\ tun[idx] = NoTunnel
       /\ log.stops = 0
       /\ ~AfterCalled

C8_Witness ==
  /\ pc = "ret"
  /\ cfg.before = <<"x">>
  /\ log.before.executed
  /\ err = ErrRunFailed(BeforeAction)
  /\ base.sshHost # ""

\* ------------------------------------------------------------------------
\* Properties of runHook (checked under SpecHook)
\* ------------------------------------------------------------------------
\* C9: for a script that starts with "-", runHook never returns a non-nil
\* error: not when tokenization of the stripped script fails, not when the
\* command exits non-zero, not when it succeeds.
C9_IgnoreErrorNeverFails ==
  (hk.called /\ Len(hk.script) # 0 /\ hk.script[1] = "-")
    => hk.res.err = Nil

C9_Witness ==
  /\ hk.called
  /\ hk.script = <<"-", "'", "x">>
  /\ Split(Tail(hk.script)).err # Nil
  /\ hk.res.err = Nil

\* C10: for a non-empty script without the "-" prefix, runHook returns a
\* non-nil error whenever tokenization fails or the command exits non-zero,
\* and returns nil only when the command ran and succeeded; an empty script
\* returns nil and executes nothing.
C10_PlainScriptPropagates ==
  hk.called =>
    /\ Len(hk.script) = 0 =>
         (hk.res.err = Nil /\ ~hk.res.executed /\ ~hk.res.panicked)
    /\ (Len(hk.script) # 0 /\ hk.script[1] # "-") =>
         LET sp == Split(hk.script)
         IN  /\ sp.err # Nil => (hk.res.err = sp.err /\ ~hk.res.executed)
             /\ (sp.err = Nil /\ Len(sp.tokens) # 0 /\ ~hk.envOk) =>
                  (hk.res.err # Nil /\ hk.res.executed)
             /\ (hk.res.err = Nil /\ ~hk.res.panicked) =>
                  (hk.res.executed /\ hk.envOk /\ sp.err = Nil)

C10_Witness ==
  /\ hk.called
  /\ hk.script = <<"x", " ", "x">>
  /\ ~hk.envOk
  /\ hk.res.err = ErrRunFailed(hk.action)

\* ------------------------------------------------------------------------
\* Further properties of the controller (checked under Spec)
\* ------------------------------------------------------------------------
\* C11: whenever the performer's init() is called the target's dump
\* directory exists, also when creating it in newBase failed.
C11_DumpDirBeforeInit ==
  (Dispatched /\ log.initCalls > 0) => base.dumpDir

\* C12: a tunnel is opened for a target, and the controller waits for its
\* ready signal, only when the target's own section declares a non-empty
\* ssh_host, whatever ssh_host is set elsewhere.
C12_TunnelOnlyForOwnSshHost ==
  (Dispatched /\ (log.opened \/ pc \in {"open", "openRet", "waitReady"}))
    => cfg.sshHost # ""

\* C13 as claimed: a target's tunnel has reached Stopped before runModel
\* reports the target's result; runModel has not returned, and Run has not
\* started the next target, while that tunnel is not Stopped.
RunOver(i) ==
  \/ i < idx
  \/ i = idx /\ pc \in {"ret", "loop", "done"}

C13_TornDownBeforeResult ==
  \A i \in Targets :
    (tun[i].opened /\ RunOver(i)) => tun[i].state = "Stopped"

\* C13 as amended: before runModel reports the result of a target with a
\* tunnel, the stop signal has been published once: it is queued on
\* cTunnelEnd or the stop-watcher has taken it; Stop is called at most once
\* and only by a stop-watcher that has taken the signal, possibly after
\* runModel has returned.  The tunnel itself may still be Started; its
\* teardown is not awaited.
SignalTaken(i) == tun[i].watchPc \in {"stop", "done"}

C13_StopRequestedBeforeResult ==
  \A i \in Targets :
    (tun[i].opened /\ RunOver(i))
      => /\ tun[i].cEnd = (IF SignalTaken(i) THEN 0 ELSE 1)
         /\ tun[i].reachedStarted
         /\ tun[i].stopCalls = (IF tun[i].watchPc = "done" THEN 1 ELSE 0)

C13_Witness ==
  /\ Dispatched
  /\ pc = "ret"
  /\ tun[idx].opened
  /\ tun[idx].state = "Started"
  /\ tun[idx].cEnd = 0
  /\ tun[idx].watchPc = "stop"
  /\ tun[idx].stopCalls = 0

\* C14 as claimed: a target with an unrecognised type is a no-op that
\* leaves everything outside runModel unchanged; in particular its dump
\* directory is not created.
C14_UnknownTypeNoOp ==
  UnknownType => ~base.dumpDir

\* C14 as amended: for a target with an unrecognised type, the one thing
\* runModel changes outside itself is the dump directory, which newBase
\* creates before the type is looked at; no step of that run changes a
\* tunnel, a result already returned or the record of calls made, and the
\* directory is touched by newBase alone.
C14_UnknownTypeOnlyMakesDumpDir ==
  [][(UnknownType /\ UnknownType' /\ pc' # pc)
       => /\ pc \in {"newBase", "switch"}
          /\ tun' = tun
          /\ log' = NoLog
          /\ err' = Nil
          /\ results' = results
          /\ runResult' = runResult
          /\ base'.dumpDir # base.dumpDir => pc = "newBase"]_vars

C14_Witness ==
  /\ UnknownType
  /\ pc = "ret"
  /\ base.dumpDir

\* C15: if init() returns an error, runModel returns it at once: no tunnel,
\* no perform(), no stop signal, no after_script whatever on_exit is; the
\* before_script hook has run by then.
C15_InitFailureAborts ==
  (Dispatched /\ log.init = ErrInit)
    => /\ pc \in {"ret", "done"}
       /\ err = ErrInit
       /\ pc = "done" => runResult = ErrInit
       /\ BeforeCalled
       /\ log.initCalls = 1
       /\ ~log.opened
       /\ tun[idx] = NoTunnel
       /\ log.performCalls = 0
       /\ log.stops = 0
       /\ ~AfterCalled

C15_Witness ==
  /\ pc = "ret"
  /\ log.init = ErrInit
  /\ err = ErrInit
  /\ base.sshHost # ""
  /\ cfg.after = <<"x">>
  /\ cfg.onExit = "always"
  /\ log.before.executed

\* C19: the two tasks and the controller share nothing but the two
\* channels: no variable is written by a task while the controller can read
\* or write it without synchronisation, the err that openTunneling returns
\* included.  The controller reads that err at "openRet"; the connect task
\* assigns it when Start returns.
CtrlReadsStartErr(i) == i = idx /\ pc = "openRet"

ConnWritesStartErr(i) ==
  \/ ENABLED ConnStartFail(i)
  \/ ENABLED ConnForwardFail(i)
  \/ ENABLED ConnForwardStopped(i)

C19_NoUnsynchronisedAccess ==
  \A i \in Targets : ~(CtrlReadsStartErr(i) /\ ConnWritesStartErr(i))

\* ------------------------------------------------------------------------
\* A further property of runHook (checked under SpecHook)
\* ------------------------------------------------------------------------
\* C20: runHook completes normally for every script: it returns nil or an
\* error and never crashes, also when the script tokenizes to zero tokens.
C20_RunHookNeverCrashes ==
  hk.called => ~hk.res.panicked

\* ------------------------------------------------------------------------
\* Properties under fair scheduling (checked under FairSpec)
\* ------------------------------------------------------------------------
\* C16: once the controller has published the stop signal, the stop-watcher
\* eventually receives it and asks the tunnel to stop, exactly once, and the
\* tunnel then eventually reaches Stopped; the stop-watcher never takes a
\* signal, nor asks the tunnel to stop, before the stop signal was published.
\* This holds also when the after_script hook panics after the signal was
\* published: the tasks go on.
StopPublished(i) == RunOver(i) \/ (i = idx /\ log.stops = 1)

C16_StopSignalStopsTunnel ==
  /\ [](\A i \in Targets :
          (SignalTaken(i) \/ tun[i].stopCalls > 0) => StopPublished(i))
  /\ [][\A i \in Targets :
          tun'[i].stopCalls # tun[i].stopCalls
            => (tun[i].watchPc = "stop" /\ tun[i].cEnd = 0 /\
                tun'[i].stopCalls = 1)]_vars
  /\ \A i \in Targets : (tun[i].cEnd = 1) ~> (tun[i].stopCalls = 1)
  /\ \A i \in Targets : (tun[i].stopCalls = 1) ~> (tun[i].state = "Stopped")

C16_Witness ==
  /\ pc = "crashed"
  /\ log.after.panicked
  /\ tun[idx].stopCalls = 1
  /\ tun[idx].cancelled
  /\ tun[idx].state = "Stopped"

\* C17: whenever the tunnel of the target being run reaches Started, the
\* controller's wait on the ready signal is eventually released and
\* perform() is invoked, whatever the connect task does meanwhile.
C17_StartedReleasesWait ==
  (Dispatched /\ pc \in {"openRet", "waitReady"} /\ tun[idx].reachedStarted)
    ~> (log.performCalls > 0)

\* C18: once a target's run is over, both tasks openTunneling started for it
\* terminate: neither stays blocked on the ready or the stop channel.
C18_TasksTerminate ==
  \A i \in Targets :
    (tun[i].opened /\ RunOver(i))
      ~> (tun[i].connPc = "done" /\ tun[i].watchPc = "done")

====
